---------------------------- MODULE Spec2Model ----------------------------
(***************************************************************************)
(* Header generation of safer_ffi (src/headers/_mod.rs): the Builder, its  *)
(* four phases (banner, prelude, body, epilogue), the ordering of the      *)
(* exports, the Definer's ledger of defined types and the resolution of    *)
(* the guard and of the library name.                                      *)
(*                                                                         *)
(* Text is a sequence of one-character strings, so that trimming, case     *)
(* conversion, replacement and byte ordering are computed, not assumed.    *)
(***************************************************************************)
EXTENDS Integers, Sequences, FiniteSets, TLC

VARIABLES
    inventory,          \* crate::inventory::iter, in iteration order
    env,                \* the process environment: CARGO_CRATE_NAME, CARGO_PKG_NAME
    run,                \* number of builders created so far
    pc,                 \* position of the current builder / generation run
    guard,              \* Builder.guard             : Option<&str>
    banner,             \* Builder.banner            : Option<&str>
    language,           \* Builder.language          : Option<Language>
    naming_convention,  \* Builder.naming_convention : Option<NamingConvention>
    stable_header,      \* Builder.stable_header     : Option<bool>
    out,                \* what the sink (Builder.target) has received
    io_failed,          \* the sink has refused a write
    defines_set,        \* HashSetDefiner.defines_set
    gen_defs,           \* write_body's iterator: the exports still to emit
    phases,             \* history: the phases entered by generate_with_definer
    calls               \* history: the exports whose gen_def was invoked

vars == <<inventory, env, run, pc, guard, banner, language, naming_convention,
          stable_header, out, io_failed, defines_set, gen_defs, phases, calls>>

-----------------------------------------------------------------------------
(* Bounds of the model.                                                    *)

MaxExports == 3
MaxNameLen == 4
MaxRuns == 2

-----------------------------------------------------------------------------
(* Text.                                                                   *)

\* Option<T>: None is the empty sequence, Some(v) the sequence of v alone.
None == <<>>

Some(v) == <<v>>

unwrap_or(o, default) == IF o = None THEN default ELSE o[1]

Lower == <<"a","b","c","d","e","f","g","h","i","j","k","l","m",
           "n","o","p","q","r","s","t","u","v","w","x","y","z">>

Upper == <<"A","B","C","D","E","F","G","H","I","J","K","L","M",
           "N","O","P","Q","R","S","T","U","V","W","X","Y","Z">>

Digits == <<"0","1","2","3","4","5","6","7","8","9">>

\* The characters of the model in ascending byte order.
Ascii == <<" ", "-", ".">> \o Digits \o Upper \o <<"_">> \o Lower

Range(s) == {s[i] : i \in DOMAIN s}

Byte(c) == CHOOSE i \in DOMAIN Ascii : Ascii[i] = c

\* char::to_ascii_uppercase
to_ascii_uppercase_char(c) ==
    IF c \in Range(Lower) THEN Upper[CHOOSE i \in DOMAIN Lower : Lower[i] = c] ELSE c

\* str::to_ascii_uppercase
to_ascii_uppercase(s) == [i \in DOMAIN s |-> to_ascii_uppercase_char(s[i])]

\* str::replace('-', "_")
replace_dash(s) == [i \in DOMAIN s |-> IF s[i] = "-" THEN "_" ELSE s[i]]

is_whitespace(c) == c = " "

\* str::trim
RECURSIVE trim_start(_)
trim_start(s) ==
    IF s = <<>> THEN s
    ELSE IF is_whitespace(Head(s)) THEN trim_start(Tail(s)) ELSE s

RECURSIVE trim_end(_)
trim_end(s) ==
    IF s = <<>> THEN s
    ELSE IF is_whitespace(s[Len(s)]) THEN trim_end(SubSeq(s, 1, Len(s) - 1)) ELSE s

trim(s) == trim_end(trim_start(s))

\* <str as Ord>::lt : lexicographic on bytes
RECURSIVE str_lt(_, _)
str_lt(a, b) ==
    IF b = <<>> THEN FALSE
    ELSE IF a = <<>> THEN TRUE
    ELSE IF Head(a) = Head(b) THEN str_lt(Tail(a), Tail(b))
    ELSE Byte(Head(a)) < Byte(Head(b))

-----------------------------------------------------------------------------
(* Type layout descriptors and the registry of exports.                    *)

Languages == {"C", "CSharp", "Python"}

Prim(n) == [kind |-> "Primitive", id |-> n]

Ptr(id) == [kind |-> "Pointer", id |-> id]

Comp(id) == [kind |-> "Composite", id |-> id]

\* The composite types of the crate under generation.  Node refers to itself
\* through a pointer, Ping and Pong refer to each other through pointers.
Composites == {"Point", "Line", "Node", "Ping", "Pong"}

Fields(id) ==
    CASE id = "Point" -> <<Prim("int32_t")>>
      [] id = "Line"  -> <<Comp("Point"), Comp("Point")>>
      [] id = "Node"  -> <<Prim("int32_t"), Ptr("Node")>>
      [] id = "Ping"  -> <<Ptr("Pong")>>
      [] id = "Pong"  -> <<Ptr("Ping"), Comp("Point")>>

\* The composites a descriptor names in its rendering.
Named(ty) == IF ty.kind = "Primitive" THEN {} ELSE {ty.id}

FfiExport(name, args, ret) == [name |-> name, args |-> args, ret |-> ret]

Arg(name, ty) == [name |-> name, ty |-> ty]

\* The #[ffi_export] functions a crate may register.  The last one reuses a
\* name, which the producer must not do.
Exports ==
    { FfiExport(<<"a","b">>, <<Arg(<<"l">>, Comp("Line"))>>, Prim("void")),
      FfiExport(<<"a">>, <<Arg(<<"p">>, Ptr("Ping")), Arg(<<"q">>, Comp("Point"))>>,
                Comp("Point")),
      FfiExport(<<"Z">>, <<>>, Ptr("Node")),
      FfiExport(<<"a">>, <<Arg(<<"l">>, Comp("Line"))>>, Prim("int32_t")) }

\* The sequences of n distinct elements of S.
RECURSIVE Arrangements(_, _)
Arrangements(S, n) ==
    IF n = 0 THEN {<<>>}
    ELSE UNION {{<<e>> \o t : t \in Arrangements(S \ {e}, n - 1)} : e \in S}

Inventories == UNION {Arrangements(Exports, n) : n \in 0..MaxExports}

-----------------------------------------------------------------------------
(* The sink and the Definer.  A Definer value d is threaded through the    *)
(* writing operators as `definer: &mut dyn Definer` is through the code:   *)
(* d.out is what the sink received, d.left the number of writes the sink   *)
(* still accepts, d.err whether a write returned Err (propagated by `?`).  *)

Item(kind, lang, id, text, refs) ==
    [kind |-> kind, lang |-> lang, id |-> id, text |-> text, refs |-> refs]

HashSetDefiner(o, set, left) ==
    [out |-> o, defines_set |-> set, left |-> left, err |-> FALSE, panic |-> FALSE]

\* No step of a run writes more often than once per composite and once more.
MaxStepWrites == Cardinality(Composites) + 1

\* The sinks a step may meet: one failing at its next write, at the one after,
\* ..., one that takes every write of the step.
SinkBudgets == 0..MaxStepWrites

\* io::Write::write_fmt on definer.out(): one write!/writeln! call.  The sink
\* takes the whole text or returns Err.
write(d, items) ==
    IF d.left = 0
    THEN [d EXCEPT !.err = TRUE]
    ELSE [d EXCEPT !.out = @ \o items, !.left = @ - 1]

\* CType::define_self of backend `lang` for descriptor ty.  A primitive has
\* nothing to define and a pointer defines its pointee.  A composite already in
\* the ledger is skipped; otherwise it is entered into the ledger, which is what
\* ends the recursion on a cycle of pointers, its fields are defined, and its
\* own body is written last.
RECURSIVE define_self(_, _, _)
define_self(lang, d, ty) ==
    IF ty.kind = "Primitive" THEN d
    ELSE IF ty.id \in d.defines_set THEN d
    ELSE LET marked == [d EXCEPT !.defines_set = @ \cup {ty.id}]
             fs == Fields(ty.id)
             \* the fields' definitions, stopping at the first Err
             RECURSIVE fields(_, _)
             fields(dd, i) ==
                 IF i > Len(fs) \/ dd.err THEN dd
                 ELSE fields(define_self(lang, dd, fs[i]), i + 1)
             after == fields(marked, 1)
         IN  IF after.err THEN after
             ELSE write(after,
                        <<Item("typedef", lang, <<ty.id>>, <<"struct ", ty.id>>,
                               UNION {Named(fs[i]) : i \in DOMAIN fs})>>)

-----------------------------------------------------------------------------
(* Rendering of a function declaration.                                    *)

\* CType::name_wrapping_var of backend `lang`.
name_wrapping_var(lang, ty, var) ==
    LET spelling == CASE ty.kind = "Primitive" -> ty.id
                      [] ty.kind = "Pointer"   -> ty.id \o "_t *"
                      [] ty.kind = "Composite" -> ty.id \o "_t"
    IN  <<spelling, " ">> \o var

ends_with(s, c) == s # <<>> /\ s[Len(s)] = c

\* __define_fn__::name
name(o, f_name, lang) ==
    CASE lang = "C"      -> o \o trim(f_name) \o <<" ", "(">>
      [] lang = "CSharp" -> o \o trim(f_name) \o <<" ", "(">>
      [] lang = "Python" -> o \o trim(f_name) \o <<" ", "(">>

\* As __define_fn__::arg, with the comma pushed before every argument.
arg_comma_always(o, a, lang) ==
    LET sep == o \o <<",">>
    IN  CASE lang = "C"      -> sep \o <<"\n    ">> \o name_wrapping_var("C", a.ty, a.name)
          [] lang = "CSharp" -> sep \o <<"\n        ">>
                                    \o name_wrapping_var("CSharp", a.ty, a.name)
          [] lang = "Python" -> sep \o <<"\n    ">>
                                    \o name_wrapping_var("Python", a.ty, a.name)

\* __define_fn__::arg
arg(o, a, lang) ==
    LET sep == IF ~ends_with(o, "(") THEN o \o <<",">> ELSE o
    IN  CASE lang = "C"      -> sep \o <<"\n    ">> \o name_wrapping_var("C", a.ty, a.name)
          [] lang = "CSharp" -> sep \o <<"\n        ">>
                                    \o name_wrapping_var("CSharp", a.ty, a.name)
          [] lang = "Python" -> sep \o <<"\n    ">>
                                    \o name_wrapping_var("Python", a.ty, a.name)

\* __define_fn__::ret, for the export e whose name and arguments were rendered
\* into fname_and_args.
ret(d, lang, fname_and_args, e) ==
    LET refs == Named(e.ret) \cup UNION {Named(e.args[i].ty) : i \in DOMAIN e.args}
        void == IF ends_with(fname_and_args, "(")
                THEN fname_and_args \o <<"void">> ELSE fname_and_args
    IN  CASE lang = "C" ->
               write(d, <<Item("fn", "C", e.name,
                               name_wrapping_var("C", e.ret, void) \o <<")", ";">>,
                               refs)>>)
          [] lang = "CSharp" ->
               write(d, <<Item("fn", "CSharp", e.name,
                               <<"public unsafe partial class Ffi {",
                                 "[DllImport(RustLib, ExactSpelling = true)]">>
                               \o name_wrapping_var("CSharp", e.ret, fname_and_args)
                               \o <<")", ";", "}">>,
                               refs)>>)
          [] lang = "Python" ->
               write(d, <<Item("fn", "Python", e.name,
                               name_wrapping_var("Python", e.ret, void) \o <<")", ";">>,
                               refs)>>)

\* HeaderLanguage::emit_function: name, then each argument, then the return
\* type wrapping both.
emit_function(lang, d, e) ==
    LET RECURSIVE args(_, _)
        args(o, i) == IF i > Len(e.args) THEN o ELSE args(arg(o, e.args[i], lang), i + 1)
    IN  ret(d, lang, args(name(<<>>, e.name, lang), 1), e)

\* As __define_self__, with the C# arm calling the C backend.
define_self_csharp_as_c(d, lang, ty) ==
    CASE lang = "C"      -> define_self("C", d, ty)
      [] lang = "CSharp" -> define_self("C", d, ty)
      [] lang = "Python" -> define_self("Python", d, ty)

\* __define_self__: the typedef code of the language asked for.
__define_self__(d, lang, ty) ==
    CASE lang = "C"      -> define_self("C", d, ty)
      [] lang = "CSharp" -> define_self("CSharp", d, ty)
      [] lang = "Python" -> define_self("Python", d, ty)

\* __define_fn__: the declaration in the language asked for.
__define_fn__(d, lang, e) ==
    CASE lang = "C"      -> emit_function("C", d, e)
      [] lang = "CSharp" -> emit_function("CSharp", d, e)
      [] lang = "Python" -> emit_function("Python", d, e)

\* FfiExport.gen_def: the types of the arguments and of the return value are
\* defined first, then the function is declared.
gen_def(d, lang, e) ==
    LET tys == [i \in 1..Len(e.args) |-> e.args[i].ty] \o <<e.ret>>
        RECURSIVE types(_, _)
        types(dd, i) ==
            IF i > Len(tys) \/ dd.err THEN dd
            ELSE types(__define_self__(dd, lang, tys[i]), i + 1)
        defined == types(d, 1)
    IN  IF defined.err THEN defined ELSE __define_fn__(defined, lang, e)

-----------------------------------------------------------------------------
(* The Builder's configuration and its resolution.                         *)

Default == [kind |-> "Default", with |-> <<>>]

Suffix(x) == [kind |-> "Suffix", with |-> x]

Prefix(x) == [kind |-> "Prefix", with |-> x]

\* Custom(f), for the name transform f = str::to_ascii_uppercase
Custom == [kind |-> "Custom", with |-> <<>>]

NamingConventions == {Default, Suffix(<<"_", "s">>), Prefix(<<"p", "_">>), Custom}

Guards == {<<"_","_","A","S","G","A","R","D","_","_">>}

Banners == {<<"/* my banner */">>}

DefaultBanner == <<"File auto-generated by ::safer_ffi.",
                   "Do not manually edit this file.">>

\* Builder::lib_name; None stands for the panic of `expect`.
lib_name ==
    IF env.CARGO_CRATE_NAME # None THEN Some(env.CARGO_CRATE_NAME[1])
    ELSE IF env.CARGO_PKG_NAME # None THEN Some(replace_dash(env.CARGO_PKG_NAME[1]))
    ELSE None

\* As Builder::guard, with the configured guard ignored.
Builder_guard_derived_only ==
    IF lib_name = None THEN None
    ELSE Some(<<"_","_","R","U","S","T","_">> \o to_ascii_uppercase(lib_name[1])
              \o <<"_","_">>)

\* As Builder::guard, with the default computed eagerly (map_or for
\* map_or_else): lib_name is called even when a guard is configured.
Builder_guard_eager ==
    IF lib_name = None THEN None
    ELSE IF guard # None THEN Some(guard[1])
    ELSE Some(<<"_","_","R","U","S","T","_">> \o to_ascii_uppercase(lib_name[1])
              \o <<"_","_">>)

\* Builder::guard; None stands for the panic of lib_name, which is called
\* only when no guard is configured.
Builder_guard ==
    IF guard # None THEN Some(guard[1])
    ELSE IF lib_name = None THEN None
    ELSE Some(<<"_","_","R","U","S","T","_">> \o to_ascii_uppercase(lib_name[1])
              \o <<"_","_">>)

\* Builder::pascal_cased_lib_name's closure over the characters of s.
RECURSIVE pascal_cased(_, _)
pascal_cased(s, underscore) ==
    IF s = <<>> THEN <<>>
    ELSE IF underscore
         THEN <<to_ascii_uppercase_char(Head(s))>> \o pascal_cased(Tail(s), FALSE)
    ELSE IF Head(s) = "_" THEN pascal_cased(Tail(s), TRUE)
    ELSE <<Head(s)>> \o pascal_cased(Tail(s), FALSE)

\* Builder::pascal_cased_lib_name; None stands for the panic of lib_name.
pascal_cased_lib_name ==
    IF lib_name = None THEN None ELSE Some(pascal_cased(lib_name[1], TRUE))

\* templates/c/_prelude.h
c_prelude_h(g) ==
    <<Item("prelude", "C", <<>>, <<"#ifndef ">> \o g, {}),
      Item("prelude", "C", <<>>, <<"#define ">> \o g, {})>>

\* templates/c/epilogue.h
c_epilogue_h(g) ==
    <<Item("epilogue", "C", <<>>, <<"#endif /* ">> \o g \o <<" */">>, {})>>

\* templates/csharp/_prelude.cs
csharp_prelude_cs(NameSpace, RustLib) ==
    <<Item("prelude", "CSharp", <<>>, <<"namespace ">> \o NameSpace \o <<" {">>, {}),
      Item("prelude", "CSharp", <<>>, <<"RustLib = ">> \o RustLib, {})>>

\* templates/csharp/epilogue.cs
csharp_epilogue_cs(PkgName) ==
    <<Item("epilogue", "CSharp", <<>>, <<"} /* ">> \o PkgName \o <<" */">>, {})>>

panicked(d) == [d EXCEPT !.panic = TRUE]

\* Builder::write_banner
write_banner(d) ==
    write(d, <<Item("banner", "-", <<>>, unwrap_or(banner, DefaultBanner), {})>>)

\* Builder::write_prelude
write_prelude(d) ==
    LET lang == unwrap_or(language, "C")
        g == Builder_guard
    IN  IF g = None THEN panicked(d)
        ELSE CASE lang = "C" -> write(d, c_prelude_h(g[1]))
               [] lang = "CSharp" ->
                    IF pascal_cased_lib_name = None \/ lib_name = None THEN panicked(d)
                    ELSE write(d, csharp_prelude_cs(pascal_cased_lib_name[1], lib_name[1]))
               [] lang = "Python" -> d

\* Builder::write_epilogue
write_epilogue(d) ==
    LET lang == unwrap_or(language, "C")
    IN  CASE lang = "C" ->
               IF Builder_guard = None THEN panicked(d)
               ELSE write(d, c_epilogue_h(Builder_guard[1]))
          [] lang = "CSharp" ->
               IF pascal_cased_lib_name = None THEN panicked(d)
               ELSE write(d, csharp_epilogue_cs(pascal_cased_lib_name[1]))
          [] lang = "Python" -> d

\* BTreeMap<name, gen_def>::into_iter of the keys S: ascending.
RECURSIVE Ascending(_)
Ascending(S) ==
    IF S = {} THEN <<>>
    ELSE LET least == CHOOSE k \in S : \A o \in S \ {k} : str_lt(k, o)
         IN  <<least>> \o Ascending(S \ {least})

\* As StableOrder, with the exports collected into a Vec: registration order.
StableOrder_unsorted(inv) == inv

\* write_body, stable_header: the exports collected into a BTreeMap keyed by
\* name (a later export replaces an earlier one of the same name), its values
\* in the order of the keys.
StableOrder(inv) ==
    LET keys == Ascending({inv[i].name : i \in DOMAIN inv})
        last(k) == CHOOSE i \in DOMAIN inv :
                       /\ inv[i].name = k
                       /\ \A j \in DOMAIN inv : inv[j].name = k => j <= i
    IN  [n \in DOMAIN keys |-> inv[last(keys[n])]]

\* As NaturalOrder, without `.rev()`.
NaturalOrder_unreversed(inv) == inv

\* write_body, otherwise: the exports collected into a Vec, reversed.
NaturalOrder(inv) == [n \in DOMAIN inv |-> inv[Len(inv) + 1 - n]]

\* As generate_with_definer, with write_body called before write_prelude.
generate_with_definer_body_first(phase, d) ==
    IF d.panic THEN "panicked"
    ELSE IF d.err THEN "err"
    ELSE CASE phase = "banner"   -> "body"
           [] phase = "body"     -> "prelude"
           [] phase = "prelude"  -> "epilogue"
           [] phase = "epilogue" -> "ok"

\* As generate_with_definer, with the phases' results dropped instead of `?`.
generate_with_definer_ignoring_err(phase, d) ==
    IF d.panic THEN "panicked"
    ELSE CASE phase = "banner"   -> "prelude"
           [] phase = "prelude"  -> "body"
           [] phase = "body"     -> "epilogue"
           [] phase = "epilogue" -> "ok"

\* generate_with_definer: where the run goes after `phase` returned d.  A
\* panic unwinds, `?` returns the Err, otherwise the next phase follows.
generate_with_definer(phase, d) ==
    IF d.panic THEN "panicked"
    ELSE IF d.err THEN "err"
    ELSE CASE phase = "banner"   -> "prelude"
           [] phase = "prelude"  -> "body"
           [] phase = "body"     -> "epilogue"
           [] phase = "epilogue" -> "ok"

\* As Default_defines_set, with the ledger of the previous run kept.
stale_defines_set == defines_set

\* Builder::generate's `defines_set: Default::default()`
Default_defines_set == {}

-----------------------------------------------------------------------------
(* The operations.                                                         *)

config == <<guard, banner, language, naming_convention, stable_header>>

static == <<inventory, env>>

local == <<out, io_failed, defines_set, gen_defs, phases, calls>>

Unconfigured ==
    /\ guard = None
    /\ banner = None
    /\ language = None
    /\ naming_convention = None
    /\ stable_header = None

NoRun ==
    /\ out = <<>>
    /\ io_failed = FALSE
    /\ gen_defs = <<>>
    /\ phases = <<>>
    /\ calls = <<>>

\* headers::builder(), once the previous run has returned
builder ==
    /\ pc \in {"ok", "err"}
    /\ run < MaxRuns
    /\ run' = run + 1
    /\ pc' = "builder"
    /\ guard' = None
    /\ banner' = None
    /\ language' = None
    /\ naming_convention' = None
    /\ stable_header' = None
    /\ out' = <<>>
    /\ io_failed' = FALSE
    /\ gen_defs' = <<>>
    /\ phases' = <<>>
    /\ calls' = <<>>
    /\ UNCHANGED <<static, defines_set>>

Configurable == pc \in {"builder", "ready"}

with_guard ==
    /\ Configurable
    /\ \E g \in Guards : guard' = Some(g)
    /\ UNCHANGED <<static, run, pc, banner, language, naming_convention,
                   stable_header, local>>

with_banner ==
    /\ Configurable
    /\ \E b \in Banners : banner' = Some(b)
    /\ UNCHANGED <<static, run, pc, guard, language, naming_convention,
                   stable_header, local>>

with_language ==
    /\ Configurable
    /\ \E l \in Languages : language' = Some(l)
    /\ UNCHANGED <<static, run, pc, guard, banner, naming_convention,
                   stable_header, local>>

with_naming_convention ==
    /\ Configurable
    /\ \E n \in NamingConventions : naming_convention' = Some(n)
    /\ UNCHANGED <<static, run, pc, guard, banner, language, stable_header, local>>

with_stable_header ==
    /\ Configurable
    /\ \E b \in BOOLEAN : stable_header' = Some(b)
    /\ UNCHANGED <<static, run, pc, guard, banner, language, naming_convention, local>>

to_writer ==
    /\ pc = "builder"
    /\ pc' = "ready"
    /\ out' = <<>>
    /\ UNCHANGED <<static, run, config, io_failed, defines_set, gen_defs, phases, calls>>

generate ==
    /\ pc = "ready"
    /\ pc' = "banner"
    /\ defines_set' = Default_defines_set
    /\ UNCHANGED <<static, run, config, out, io_failed, gen_defs, phases, calls>>

\* The phase `phase` of generate_with_definer ran and left the Definer as d.
Returned(phase, d) ==
    /\ out' = d.out
    /\ defines_set' = d.defines_set
    /\ io_failed' = (io_failed \/ d.err)
    /\ pc' = generate_with_definer(phase, d)

Banner ==
    /\ pc = "banner"
    /\ phases' = Append(phases, "banner")
    /\ \E left \in SinkBudgets :
           Returned("banner", write_banner(HashSetDefiner(out, defines_set, left)))
    /\ UNCHANGED <<static, run, config, gen_defs, calls>>

Prelude ==
    /\ pc = "prelude"
    /\ phases' = Append(phases, "prelude")
    /\ \E left \in SinkBudgets :
           Returned("prelude", write_prelude(HashSetDefiner(out, defines_set, left)))
    /\ UNCHANGED <<static, run, config, gen_defs, calls>>

\* write_body up to its loop: the iterator over the exports.
Body ==
    /\ pc = "body"
    /\ phases' = Append(phases, "body")
    /\ gen_defs' = IF unwrap_or(stable_header, TRUE)
                   THEN StableOrder(inventory) ELSE NaturalOrder(inventory)
    /\ pc' = "emit"
    /\ UNCHANGED <<static, run, config, out, io_failed, defines_set, calls>>

\* One turn of write_body's try_for_each.
Emit ==
    /\ pc = "emit"
    /\ gen_defs # <<>>
    /\ calls' = Append(calls, Head(gen_defs))
    /\ gen_defs' = Tail(gen_defs)
    /\ \E left \in SinkBudgets :
           LET d == gen_def(HashSetDefiner(out, defines_set, left),
                            unwrap_or(language, "C"), Head(gen_defs))
           IN  /\ out' = d.out
               /\ defines_set' = d.defines_set
               /\ io_failed' = (io_failed \/ d.err)
               /\ pc' = IF d.err THEN "err" ELSE "emit"
    /\ UNCHANGED <<static, run, config, phases>>

\* write_body returns Ok(()) once the iterator is exhausted.
BodyEnd ==
    /\ pc = "emit"
    /\ gen_defs = <<>>
    /\ pc' = generate_with_definer("body", HashSetDefiner(out, defines_set, 0))
    /\ UNCHANGED <<static, run, config, local>>

Epilogue ==
    /\ pc = "epilogue"
    /\ phases' = Append(phases, "epilogue")
    /\ \E left \in SinkBudgets :
           Returned("epilogue", write_epilogue(HashSetDefiner(out, defines_set, left)))
    /\ UNCHANGED <<static, run, config, gen_defs, calls>>

-----------------------------------------------------------------------------
(* Specifications.                                                         *)

LibNames == {<<"m","y","-","l","i","b">>, <<"m","y","_","l","i","b","2">>}

Start ==
    /\ run = 1
    /\ pc = "builder"
    /\ Unconfigured
    /\ NoRun
    /\ defines_set = {}

\* Generation over every registry, in a build where cargo set both names.  The
\* builder is configured in what write_body reads and uses: the language and
\* the ordering.
Init ==
    /\ inventory \in Inventories
    /\ env = [CARGO_CRATE_NAME |-> Some(<<"m","y","_","l","i","b">>),
              CARGO_PKG_NAME   |-> Some(<<"m","y","-","l","i","b">>)]
    /\ Start

Run == generate \/ Banner \/ Prelude \/ Body \/ Emit \/ BodyEnd \/ Epilogue

Next == builder \/ with_language \/ with_stable_header \/ to_writer \/ Run

Spec == Init /\ [][Next]_vars

\* Every configuration under every environment, over the registries of at
\* most one export.
InitConfig ==
    /\ inventory \in {inv \in Inventories : Len(inv) <= 1}
    /\ env \in [CARGO_CRATE_NAME : {None} \cup {Some(n) : n \in LibNames},
                CARGO_PKG_NAME   : {None} \cup {Some(n) : n \in LibNames}]
    /\ Start

NextConfig ==
    \/ builder \/ with_guard \/ with_banner \/ with_language
    \/ with_naming_convention \/ with_stable_header \/ to_writer \/ Run

SpecConfig == InitConfig /\ [][NextConfig]_vars

\* The characters of a crate name: a letter, a digit, the underscore.
NameChars == {"a", "1", "_"}

\* The texts over NameChars of length n.
RECURSIVE Strings(_)
Strings(n) ==
    IF n = 0 THEN {<<>>}
    ELSE {<<c>> \o t : c \in NameChars, t \in Strings(n - 1)}

\* C# generation for every crate name of at most MaxNameLen characters, over
\* the registries of one export.
InitNames ==
    /\ inventory \in {inv \in Inventories : Len(inv) = 1}
    /\ env \in [CARGO_CRATE_NAME : {Some(n) : n \in UNION {Strings(k) : k \in 1..MaxNameLen}},
                CARGO_PKG_NAME   : {None}]
    /\ Start

NextNames == builder \/ with_language \/ to_writer \/ Run

SpecNames == InitNames /\ [][NextNames]_vars

-----------------------------------------------------------------------------
(* Properties.                                                             *)

Lang == unwrap_or(language, "C")

Stable == unwrap_or(stable_header, TRUE)

NamesDistinct(inv) == \A i, j \in DOMAIN inv : inv[i].name = inv[j].name => i = j

\* The phase that writes items of this kind, numbered in the order of the run.
PhaseOfKind(k) ==
    CASE k = "banner" -> 1
      [] k = "prelude" -> 2
      [] k \in {"typedef", "fn"} -> 3
      [] k = "epilogue" -> 4

Items(k) == {i \in DOMAIN out : out[i].kind = k}

\* The places of the definition of composite c in the output.
Definitions(c) == {i \in Items("typedef") : out[i].id = <<c>>}

\* The composites reachable from those of S through fields, pointers included.
RECURSIVE Closure(_)
Closure(S) ==
    LET more == S \cup UNION {UNION {Named(Fields(c)[i]) : i \in DOMAIN Fields(c)} : c \in S}
    IN  IF more = S THEN S ELSE Closure(more)

\* The composites the export e names in its arguments and return type.
NamedBy(e) == Named(e.ret) \cup UNION {Named(e.args[i].ty) : i \in DOMAIN e.args}

\* The body ran to its end without a failed write.
BodyDone == ~io_failed /\ pc \in {"epilogue", "ok"}

\* C1: a run enters the phases Banner, Prelude, Body, Epilogue in this order,
\* each at most once and, when it returns Ok, each exactly once; the sink
\* never holds output of a later phase before output of an earlier one, and
\* the banner is what it received first.
C1_PhasesInOrder ==
    LET order == <<"banner", "prelude", "body", "epilogue">>
    IN  /\ Len(phases) <= Len(order)
        /\ phases = SubSeq(order, 1, Len(phases))
        /\ pc = "ok" => phases = order
        /\ \A i, j \in DOMAIN out :
               i < j => PhaseOfKind(out[i].kind) <= PhaseOfKind(out[j].kind)
        /\ pc = "ok" => Items("banner") = {1}

C1_Witness ==
    /\ pc = "ok"
    /\ Items("prelude") # {}
    /\ Items("typedef") # {}
    /\ Items("fn") # {}
    /\ Items("epilogue") # {}

\* What a sink that takes every write receives from a run of the current
\* configuration over the registry inv.
Replay(inv) ==
    LET all == 3 + Len(inv) + Cardinality(Composites)
        order == IF Stable THEN StableOrder(inv) ELSE NaturalOrder(inv)
        RECURSIVE body(_, _)
        body(d, i) == IF i > Len(order) THEN d ELSE body(gen_def(d, Lang, order[i]), i + 1)
    IN  write_epilogue(body(write_prelude(write_banner(HashSetDefiner(<<>>, {}, all))), 1)).out

\* C2: in stable mode, over a registry of pairwise distinct names, the exports
\* are handed to the emitter in ascending order of name, and the output of the
\* run is the output of the run over any other registration order of the same
\* exports.
C2_StableOrderIndependent ==
    (pc = "ok" /\ Stable /\ NamesDistinct(inventory)) =>
        /\ \A i, j \in DOMAIN calls : i < j => str_lt(calls[i].name, calls[j].name)
        /\ \A other \in Arrangements(Range(inventory), Len(inventory)) :
               /\ StableOrder(other) = calls
               /\ Replay(other) = out

C2_Witness ==
    /\ pc = "ok"
    /\ Stable
    /\ NamesDistinct(inventory)
    /\ Len(inventory) >= 3
    /\ calls # inventory
    /\ Items("typedef") # {}

\* C3: in one run no composite is defined twice, a defined composite is in the
\* ledger, every composite reachable from an emitted export is defined exactly
\* once when the body is done, and every run starts from an empty ledger.
C3_DefinedOnce ==
    /\ \A c \in Composites : Cardinality(Definitions(c)) <= 1
    /\ \A c \in Composites : Definitions(c) # {} => c \in defines_set
    /\ pc = "banner" => defines_set = {}
    /\ BodyDone =>
           \A c \in Closure(UNION {NamedBy(calls[i]) : i \in DOMAIN calls}) :
               Cardinality(Definitions(c)) = 1

\* A second run, for C#, in which Point is named by two exports and by two
\* composites, and Ping and Pong name each other.
C3_Witness ==
    /\ run = 2
    /\ pc = "ok"
    /\ Lang = "CSharp"
    /\ Cardinality({i \in DOMAIN calls : "Point" \in Closure(NamedBy(calls[i]))}) >= 2
    /\ Cardinality(Definitions("Point")) = 1
    /\ Cardinality(Definitions("Ping")) = 1
    /\ Cardinality(Definitions("Pong")) = 1

\* The composite c is defined, by the backend of the item at place i, before
\* that item.
DefinedBefore(c, i) == \E j \in Definitions(c) : j < i /\ out[j].lang = out[i].lang

\* C4 as claimed: in the C and C# output of a run that returned Ok every
\* function declaration and every composite is preceded by the definition of
\* every composite it names.
C4_DefinedBeforeAnyUse ==
    (Lang \in {"C", "CSharp"} /\ pc = "ok") =>
        \A i \in Items("fn") \cup Items("typedef") :
            \A c \in out[i].refs \ {out[i].id[1]} : DefinedBefore(c, i)

\* C4 as amended: in C and C# output every function declaration is preceded
\* by the definition of every composite it names, and every composite by the
\* definition of every other composite it names, unless that one refers back
\* to it (the two lie on a cycle of references).
C4_DefinedBeforeUse ==
    Lang \in {"C", "CSharp"} =>
        /\ \A i \in Items("fn") : \A c \in out[i].refs : DefinedBefore(c, i)
        /\ \A i \in Items("typedef") :
               \A c \in out[i].refs \ {out[i].id[1]} :
                   DefinedBefore(c, i) \/ out[i].id[1] \in Closure({c})

C4_Witness ==
    /\ pc = "ok"
    /\ Lang = "CSharp"
    /\ \E i \in Items("fn") : out[i].refs # {}
    /\ \E i \in Items("typedef") : out[i].id = <<"Line">>
    /\ \E i \in Items("typedef") : out[i].id = <<"Pong">>

\* C5: once a write has failed the run is in its Err state, from which nothing
\* more is written, no export is emitted and no phase entered: the only step
\* left is the next builder.
C5_FailFast ==
    [][ /\ io_failed' => pc' = "err"
        /\ io_failed => \/ UNCHANGED <<out, calls, phases, gen_defs, pc>>
                        \/ run' = run + 1 ]_vars

\* A write of the body failed with exports left to emit.
C5_Witness ==
    /\ io_failed
    /\ pc = "err"
    /\ calls # <<>>
    /\ gen_defs # <<>>
    /\ Items("typedef") # {}

\* The run wrote its prelude: it is in the body or beyond.
PreludeDone == ~io_failed /\ pc \in {"body", "emit", "epilogue", "ok"}

\* C6: in C output with a configured guard G the two lines after the banner
\* are `#ifndef G` and `#define G`, and the last line of a run that returned
\* Ok is `#endif /* G */`.
C6_GuardRoundTrip ==
    (Lang = "C" /\ guard # None) =>
        /\ PreludeDone =>
               /\ out[1].kind = "banner"
               /\ out[2].text = <<"#ifndef ">> \o guard[1]
               /\ out[3].text = <<"#define ">> \o guard[1]
               /\ Items("prelude") = {2, 3}
        /\ pc = "ok" =>
               /\ out[Len(out)].kind = "epilogue"
               /\ out[Len(out)].text = <<"#endif /* ">> \o guard[1] \o <<" */">>
               /\ Tail(out[2].text) \o <<" */">> = Tail(out[Len(out)].text)

C6_Witness ==
    /\ pc = "ok"
    /\ Lang = "C"
    /\ guard # None
    /\ Items("fn") # {}
    /\ env.CARGO_CRATE_NAME # None

\* The name the convention n gives to the export name f.
Conventional(n, f) ==
    CASE n.kind = "Default" -> f
      [] n.kind = "Prefix"  -> n.with \o f
      [] n.kind = "Suffix"  -> f \o n.with
      [] n.kind = "Custom"  -> to_ascii_uppercase(f)

\* The text t holds the text u as a contiguous part.
Contains(t, u) ==
    \E k \in 0..(Len(t) - Len(u)) : SubSeq(t, k + 1, k + Len(u)) = u

\* C7: every function is declared under the name the configured naming
\* convention gives to its export name.
C7_NamingConventionApplied ==
    \A i \in Items("fn") :
        Contains(out[i].text,
                 <<" ">> \o Conventional(unwrap_or(naming_convention, Default), out[i].id)
                         \o <<" ", "(">>)

is_alphanumeric(c) == c \in Range(Lower) \cup Range(Upper) \cup Range(Digits)

\* C8: the guard written by the C prelude is the configured one, or else
\* `__RUST_` L `__`, L being the library identifier in upper case with every
\* non-alphanumeric character replaced by `_`, whichever variable gave it.
C8_GuardResolution ==
    (Lang = "C" /\ PreludeDone) =>
        LET id == IF env.CARGO_CRATE_NAME # None
                  THEN env.CARGO_CRATE_NAME[1] ELSE env.CARGO_PKG_NAME[1]
            L == [i \in DOMAIN id |->
                     IF is_alphanumeric(id[i]) THEN to_ascii_uppercase_char(id[i]) ELSE "_"]
        IN  Tail(out[2].text) =
                IF guard # None THEN guard[1]
                ELSE <<"_","_","R","U","S","T","_">> \o L \o <<"_","_">>

BothAbsent == env.CARGO_CRATE_NAME = None /\ env.CARGO_PKG_NAME = None

\* C9 as claimed: without CARGO_CRATE_NAME and CARGO_PKG_NAME no run of any
\* configuration returns Ok, and nothing is ever written to the sink.
C9_AbsentNamesAbortAtStart == BothAbsent => (pc # "ok" /\ out = <<>>)

\* The library name is needed: for the default guard, and by the C# templates.
NeedsLibName == guard = None \/ Lang = "CSharp"

\* C9 as amended: CARGO_CRATE_NAME is used when present and CARGO_PKG_NAME
\* only otherwise; a run panics only when both are absent and the library name
\* is needed, and then in the prelude, with the banner written and nothing
\* else; a run that needs the name gets no further than the prelude.
C9_AbsentNamesPanicInPrelude ==
    /\ (Lang = "CSharp" /\ PreludeDone) =>
           out[3].text = <<"RustLib = ">> \o
               (IF env.CARGO_CRATE_NAME # None THEN env.CARGO_CRATE_NAME[1]
                ELSE replace_dash(env.CARGO_PKG_NAME[1]))
    /\ pc = "panicked" =>
           /\ BothAbsent
           /\ NeedsLibName
           /\ phases = <<"banner", "prelude">>
           /\ Len(out) = 1
           /\ out[1].kind = "banner"
    /\ (BothAbsent /\ NeedsLibName) =>
           /\ Len(phases) <= 2
           /\ pc \notin {"body", "emit", "epilogue", "ok"}

C9_Witness ==
    /\ BothAbsent
    /\ pc = "panicked"
    /\ guard # None
    /\ out # <<>>

\* C10: over a registry of pairwise distinct names the body invokes the
\* emitter once for each export and declares each function once, in ascending
\* order of name in stable mode and in the reverse of the registration order
\* otherwise.
C10_EachExportOnce ==
    (BodyDone /\ NamesDistinct(inventory)) =>
        /\ Len(calls) = Len(inventory)
        /\ \A n \in DOMAIN inventory :
               /\ Cardinality({i \in DOMAIN calls : calls[i] = inventory[n]}) = 1
               /\ Cardinality({i \in Items("fn") : out[i].id = inventory[n].name}) = 1
        /\ Cardinality(Items("fn")) = Len(inventory)
        /\ Stable => \A i, j \in DOMAIN calls :
                         i < j => str_lt(calls[i].name, calls[j].name)
        /\ ~Stable => \A i \in DOMAIN calls : calls[i] = inventory[Len(inventory) + 1 - i]

C10_Witness ==
    /\ pc = "ok"
    /\ ~Stable
    /\ NamesDistinct(inventory)
    /\ Len(inventory) >= 3

\* The export declared by the function item at place i: the items follow the
\* calls of the emitter.
ExportAt(i) == calls[Cardinality({j \in Items("fn") : j <= i})]

\* The parameter list of a declaration: what stands between its first `(` and
\* its last `)`.
Params(t) ==
    LET open == CHOOSE k \in DOMAIN t : t[k] = "(" /\ \A j \in 1..(k - 1) : t[j] # "("
        close == CHOOSE k \in DOMAIN t : t[k] = ")" /\ \A j \in (k + 1)..Len(t) : t[j] # ")"
    IN  SubSeq(t, open + 1, close - 1)

\* The first n arguments of e as a C or Python parameter list: each on a line
\* of its own, a comma before each but the first.
RECURSIVE Listed(_, _, _)
Listed(e, lang, n) ==
    IF n = 0 THEN <<>>
    ELSE Listed(e, lang, n - 1) \o (IF n > 1 THEN <<",">> ELSE <<>>)
         \o <<"\n    ">> \o name_wrapping_var(lang, e.args[n].ty, e.args[n].name)

\* C11: in C and Python output the parameter list of a function without
\* arguments is `void`, and that of a function with arguments is its arguments
\* in declared order, a comma before each but the first, and no `void`.
C11_ParameterList ==
    \A i \in Items("fn") :
        out[i].lang \in {"C", "Python"} =>
            LET e == ExportAt(i)
            IN  /\ e.name = out[i].id
                /\ Params(out[i].text) =
                       IF e.args = <<>> THEN <<"void">> ELSE Listed(e, out[i].lang, Len(e.args))

\* A C header declaring a function without arguments and one with two.
C11_Witness ==
    /\ pc = "ok"
    /\ Lang = "C"
    /\ \E i \in Items("fn") : ExportAt(i).args = <<>>
    /\ \E i \in Items("fn") : Len(ExportAt(i).args) = 2

\* The characters of s from place i on in upper camel case: the underscores
\* dropped, the first character and every character after an underscore in
\* upper case, the others as they are.
RECURSIVE UpperCamel(_, _)
UpperCamel(s, i) ==
    IF i > Len(s) THEN <<>>
    ELSE IF s[i] = "_" THEN UpperCamel(s, i + 1)
    ELSE <<IF i = 1 \/ s[i - 1] = "_" THEN to_ascii_uppercase_char(s[i]) ELSE s[i]>>
         \o UpperCamel(s, i + 1)

\* C12: the namespace the C# prelude is written with is the crate name in
\* upper camel case: no underscore, the other characters in their order, the
\* first one and those after an underscore in upper case.
C12_PascalCase ==
    (Lang = "CSharp" /\ PreludeDone /\ env.CARGO_CRATE_NAME # None) =>
        /\ out[2].text = <<"namespace ">> \o UpperCamel(env.CARGO_CRATE_NAME[1], 1) \o <<" {">>
        /\ "_" \notin Range(SubSeq(out[2].text, 2, Len(out[2].text) - 1))

=============================================================================
